---- MODULE Spec2Model ----
(***************************************************************************)
(* Model of the PDF viewer of src/script.js (the viewer of lines 170-337): *)
(* the single-flight render scheduler (renderPage / queueRender), page     *)
(* navigation, zoom, fit-scale computation, the resize observer and the    *)
(* document load.                                                          *)
(*                                                                         *)
(* The file holds two versions of the viewer one after the other; they     *)
(* differ in pickBestScaleForPage and prepareCanvas only, and the second   *)
(* one is modelled.                                                        *)
(*                                                                         *)
(* Scales are held in thousandths (scale 1 is 1000): every assignment to   *)
(* scale in the source goes through toFixed(3) and the clamp to [0.25, 8]. *)
(* Each handler of the single-threaded event loop is one atomic action;    *)
(* promise callbacks (getPage, render, getDocument) are separate actions.  *)
(***************************************************************************)
EXTENDS Integers, Sequences, FiniteSets, TLC

\* ------------------------------------------------------------------ bounds
NumPages == 2          \* pdfDoc.numPages of the document that is loaded
MaxFits == 1           \* outstanding getPage calls of computeInitialScaleAndRender
MaxZooms == 1          \* effective zoom steps in one run

\* ----------------------------------------------------- program constants
MIN_SCALE == 250       \* Math.max(0.25, ...)
MAX_SCALE == 8000      \* Math.min(8, ...)
INIT_SCALE == 1000     \* let scale = 1
NULL == 0              \* null (pending, pdfDoc); pages are 1-based
DOC == 1               \* the document handle
SWIPE_MIN == 60        \* Math.abs(dx) > 60

\* ------------------------------------------------------------ environment
\* natural sizes (width, height) of the pages, in PDF points
Sizes == << <<600, 800>>, <<50, 50>> >>
PageSize(n) == Sizes[((n - 1) % Len(Sizes)) + 1]
\* sizes (clientWidth, clientHeight) the viewer element can take
Viewports == { <<800, 600>>, <<100, 100>> }
InitViewport == <<800, 600>>
\* positions (clientX, clientY) where a finger goes down and where it lifts
TouchStarts == { <<0, 0>>, <<100, 0>> }
TouchEnds == { <<0, 0>>, <<160, 0>>, <<161, 0>>, <<200, 0>>, <<200, 100>> }

VARIABLES
  pdfDoc,      \* NULL or DOC
  pageNum,     \* current page
  scale,       \* current scale, in thousandths
  fitMode,     \* "auto" | "width" | "page" | "custom"
  rendering,   \* the in-flight flag
  pending,     \* NULL or the deferred page
  indicator,   \* text of #page-indicator
  viewer,      \* <<clientWidth, clientHeight>> of #viewer
  loadTask,    \* "pending" | "resolved" | "rejected": getDocument(URL).promise
  jobs,        \* render operations started by renderPage and not yet ended
  fits,        \* fits[k]: outstanding getPage(k) of computeInitialScaleAndRender
  zooms,       \* number of effective zoom steps so far
  req,         \* argument of the queueRender call of the last step, or NULL
  started,     \* page of the render operation started by the last step, or NULL
  uncaught,    \* error that escaped the last step, or "none"
  ended,       \* how a render operation ended in the last step, or "none"
  sx,          \* clientX of the touch in progress (let sx = 0)
  sy,          \* clientY of the touch in progress (let sy = 0)
  burst,       \* renders counted for the resize burst in progress, 0: none
  probe        \* inputs and results of a function under PureSpec

vars == <<pdfDoc, pageNum, scale, fitMode, rendering, pending, indicator,
          viewer, loadTask, jobs, fits, zooms, req, started, uncaught,
          ended, sx, sy, burst, probe>>

\* ------------------------------------------------------------- arithmetic
Min(a, b) == IF a < b THEN a ELSE b
Max(a, b) == IF a > b THEN a ELSE b
Abs(a) == IF a < 0 THEN -a ELSE a

\* Math.max(0.25, Math.min(8, x)), x in thousandths
Clamp(x) == Max(MIN_SCALE, Min(MAX_SCALE, x))

\* scales s for which the double (s/1000)*(1/1.2) lies below the tie
\* k + 0.5 thousandths that the exact product 5s/6 hits, so that toFixed(3)
\* rounds it down (computed from the IEEE-754 values)
TieDown_5_6 == {
    285, 291, 297, 345, 351, 357, 363, 369, 411, 417, 423, 429, 435, 441,
    447, 567, 573, 579, 585, 591, 597, 813, 819, 939, 945, 951, 957, 963,
    969, 1005, 1011, 1017, 1023, 1029, 1035, 1041, 1047, 1053, 1059, 1065,
    1071, 1077, 1083, 1089, 1095, 1101, 1107, 1113, 1119, 1251, 1257,
    1263, 1269, 1281, 1293, 1305, 1317, 1329, 1341, 1353, 1365, 1377,
    1389, 1401, 1413, 1503, 1515, 1527, 1539, 1551, 1563, 1755, 1767,
    1779, 1791, 1803, 1815, 1827, 1839, 1851, 1863, 2001, 2013, 2127,
    2139, 2151, 2163, 2385, 2397, 2403, 2409, 2427, 2433, 2451, 2457,
    2481, 2505, 2529, 2553, 2577, 2601, 2631, 2655, 2679, 2703, 2727,
    2751, 2877, 2889, 2901, 2913, 2937, 2961, 2985, 3009, 3033, 3057,
    3081, 3105, 3129, 3135, 3153, 3159, 3177, 3183, 3201, 3207, 3231,
    3255, 3279, 3303, 3327, 3351, 3381, 3405, 3429, 3453, 3477, 3501,
    3627, 3639, 3651, 3663, 3687, 3711, 3735, 3759, 3783, 3807, 3831,
    3855, 3879, 3885, 3903, 3909, 3927, 3933, 3951, 3957, 3981, 4005,
    4029, 4053, 4077, 4101, 4137, 4161, 4185, 4209, 4233, 4257, 4281,
    4305, 4329, 4353, 4377, 4395, 4401, 4419, 4443, 4467, 4491, 4515,
    4539, 4563, 4587, 4611, 4629, 4635, 4653, 4659, 4677, 4683, 4701,
    4707, 4731, 4755, 4779, 4827, 4845, 4887, 4893, 4935, 4941, 4983,
    4989, 5031, 5037, 5079, 5085, 5127, 5133, 5145, 5181, 5193, 5229,
    5241, 5277, 5289, 5337, 5379, 5385, 5403, 5427, 5433, 5451, 5481,
    5499, 5529, 5547, 5577, 5595, 5637, 5643, 5685, 5691, 5733, 5739,
    5781, 5787, 5829, 5835, 5877, 5883, 5895, 5931, 5943, 5979, 5991,
    6027, 6039, 6087, 6129, 6135, 6153, 6177, 6183, 6201, 6231, 6249,
    6279, 6297, 6327, 6345, 6387, 6393, 6435, 6441, 6483, 6489, 6531,
    6537, 6579, 6585, 6627, 6633, 6645, 6681, 6693, 6729, 6741, 6777,
    6789, 6837, 6879, 6885, 6903, 6927, 6933, 6951, 6981, 6999, 7029,
    7047, 7077, 7095, 7137, 7143, 7185, 7191, 7233, 7239, 7281, 7287,
    7329, 7335, 7377, 7383, 7395, 7431, 7443, 7479, 7491, 7527, 7539,
    7587, 7629, 7635, 7653, 7677, 7683, 7701, 7731, 7749, 7779, 7797,
    7827, 7845, 7887, 7893, 7935, 7941, 7983, 7989
  }

\* the same for the double (s/1000)*(1/1.12) and the exact product 25s/28
TieDown_25_28 == {
    266, 294, 322, 350, 378, 406, 434, 462, 490, 518, 546, 574, 602, 714,
    742, 826, 854, 882, 938, 966, 994, 1022, 1134, 1162, 1190, 1218, 1246,
    1274, 1302, 1358, 1386, 1414, 1442, 1470, 1498, 1526, 1554, 1582,
    1638, 1666, 1694, 1722, 1778, 1806, 1834, 1862, 1890, 1918, 1946,
    1974, 2002, 2030, 2058, 2086, 2114, 2142, 2170, 2198, 2226, 2254,
    2338, 2366, 2478, 2506, 2534, 2562, 2590, 2618, 2646, 2674, 2702,
    2758, 2786, 2814, 2898, 2926, 3010, 3038, 3066, 3094, 3122, 3150,
    3178, 3206, 3234, 3262, 3318, 3346, 3374, 3458, 3486, 3514, 3542,
    3570, 3598, 3626, 3654, 3682, 3710, 3738, 3766, 3794, 3822, 3878,
    3906, 3934, 4018, 4046, 4074, 4130, 4158, 4186, 4242, 4270, 4298,
    4326, 4354, 4382, 4438, 4466, 4494, 4522, 4550, 4606, 4662, 4718,
    4746, 4774, 4802, 4858, 4886, 4914, 4942, 4970, 4998, 5026, 5082,
    5138, 5166, 5194, 5222, 5278, 5306, 5334, 5362, 5390, 5418, 5446,
    5502, 5558, 5586, 5614, 5642, 5726, 5754, 5782, 5810, 5838, 5866,
    5922, 5978, 6006, 6034, 6062, 6090, 6118, 6146, 6202, 6258, 6286,
    6314, 6342, 6398, 6426, 6454, 6482, 6510, 6538, 6566, 6622, 6678,
    6706, 6734, 6762, 6818, 6846, 6874, 6902, 6930, 6958, 6986, 7042,
    7098, 7126, 7154, 7182, 7210, 7266, 7294, 7322, 7350, 7378, 7406,
    7434, 7462, 7518, 7546, 7574, 7602, 7630, 7658, 7686, 7742, 7770,
    7798, 7826, 7854, 7882, 7938, 7966, 7994
  }

\* +(s * factor).toFixed(3) for factor = f[1]/f[2]: nearest thousandth,
\* ties to the larger one, except where the double product is below the tie
RoundMul(s, f) ==
  LET exact == (2 * s * f[1] + f[2]) \div (2 * f[2])
      down == \/ f = <<5, 6>> /\ s \in TieDown_5_6
              \/ f = <<25, 28>> /\ s \in TieDown_25_28
  IN IF down THEN exact - 1 ELSE exact

\* mutant of RoundDiv: the quotient is cut after 3 decimals, not rounded
RoundDivTrunc(a, b) == (1000 * a) \div b

\* +(a / b).toFixed(3), in thousandths
RoundDiv(a, b) == (2000 * a + b) \div (2 * b)

\* the zoom factors of the handlers: 1.2, 1/1.2 (keys), 1.12, 1/1.12 (wheel)
KEY_IN == <<6, 5>>
\* mutant of KEY_OUT: 0.8 taken for the inverse of 1.2
KEY_OUT_08 == <<4, 5>>
KEY_OUT == <<5, 6>>
WHEEL_IN == <<28, 25>>
WHEEL_OUT == <<25, 28>>


\* ------------------------------------------------------------ fit scales
\* a quotient a/b of the source is held as <<a, b>> until toFixed rounds it
RatLess(x, y) == x[1] * y[2] < y[1] * x[2]
RatMin(x, y) == IF RatLess(y, x) THEN y ELSE x

\* mutant of pickBestScaleForPage: a page that is not wide is fitted to the
\* width as well
pickBestScaleForPageWidth(p, v) ==
  LET fx == <<v[1], p[1]>>
      fy == <<v[2], p[2]>>
  IN IF RatLess(fx, fy) THEN fx ELSE fx

\* pickBestScaleForPage (second definition): a page of natural size p in
\* the viewport v; fx and fy are the source's locals sx and sy
pickBestScaleForPage(p, v) ==
  LET fx == <<v[1], p[1]>>
      fy == <<v[2], p[2]>>
  IN IF RatLess(fx, fy) THEN fx ELSE RatMin(fx, fy)

\* pickBestScaleForPage (first definition, lines 23-34): the height-driven
\* scale if the page scaled by it is no wider than the viewer, else the
\* width-driven one. scaledWidth = v1.width * scaleH is p[1] * v[2] / p[2];
\* where it equals availW exactly both branches return the same quotient.
pickBestScaleForPageFirst(p, v) ==
  LET scaleH == <<v[2], p[2]>>
  IN IF p[1] * v[2] <= v[1] * p[2] THEN scaleH ELSE <<v[1], p[1]>>

\* the fit branch of computeInitialScaleAndRender followed by
\* scale = Math.max(0.25, Math.min(8, +scale.toFixed(3)))
FitScale(mode, p, v, cur) ==
  LET w == <<v[1], p[1]>>
      h == <<v[2], p[2]>>
      q == IF mode = "auto" THEN pickBestScaleForPage(p, v)
           ELSE IF mode = "width" THEN w
           ELSE RatMin(w, h)
  IN IF mode \in {"auto", "width", "page"}
     THEN Clamp(RoundDiv(q[1], q[2]))
     ELSE Clamp(cur)

\* ---------------------------------------------------------- program state
\* The functions of the source are operators from state record to state
\* record; an action reads the record of the current state, applies the
\* handler and writes the result back.
Job(n) == [n |-> n, phase |-> "getPage", sc |-> 0]

Cur ==
  [pdfDoc |-> pdfDoc, pageNum |-> pageNum, scale |-> scale,
   fitMode |-> fitMode, rendering |-> rendering, pending |-> pending,
   indicator |-> indicator, jobs |-> jobs, fits |-> fits, zooms |-> zooms,
   req |-> NULL, started |-> NULL, uncaught |-> "none",
   ended |-> "none", sx |-> sx, sy |-> sy, burst |-> burst]

\* the current state entering a step that leaves the burst count at b
In(b) == [Cur EXCEPT !.burst = b]

\* A resize burst is a run of resize notifications delivered while one
\* render is in flight with nothing pending and no fit fetch outstanding;
\* burst counts the in-flight render and the renders started since
\* (3: more than two). Any other input, a failure, or a resize after the
\* in-flight render has ended closes the burst; a burst of two renders with
\* nothing left outstanding is closed as well.
BurstAtResize ==
  IF /\ burst = 1
     /\ Len(jobs) = 1
     THEN 1
  ELSE IF /\ pdfDoc # NULL
          /\ Len(jobs) = 1
          /\ pending = NULL
          /\ \A k \in DOMAIN fits : fits[k] = 0
       THEN 1
       ELSE 0

BurstAfter(s) ==
  LET c == IF s.burst > 0 /\ s.started # NULL THEN Min(s.burst + 1, 3)
           ELSE s.burst
  IN IF c = 2 /\ s.jobs = <<>> /\ \A k \in DOMAIN s.fits : s.fits[k] = 0
     THEN 0 ELSE c

CommitState(s) ==
  /\ pdfDoc' = s.pdfDoc
  /\ pageNum' = s.pageNum
  /\ scale' = s.scale
  /\ fitMode' = s.fitMode
  /\ rendering' = s.rendering
  /\ pending' = s.pending
  /\ indicator' = s.indicator
  /\ jobs' = s.jobs
  /\ fits' = s.fits
  /\ zooms' = s.zooms
  /\ req' = s.req
  /\ started' = s.started
  /\ uncaught' = s.uncaught
  /\ ended' = s.ended
  /\ sx' = s.sx
  /\ sy' = s.sy
  /\ burst' = BurstAfter(s)

Commit(s) == CommitState(s) /\ UNCHANGED probe

\* renderPage(n): the flag is set first; with no document pdfDoc.getPage
\* throws a TypeError out of the handler (every caller calls it last)
renderPage(s, n) ==
  IF s.pdfDoc = NULL
  THEN [s EXCEPT !.rendering = TRUE, !.uncaught = "TypeError"]
  ELSE [s EXCEPT !.rendering = TRUE,
                 !.jobs = Append(@, Job(n)),
                 !.started = n]

\* mutant of queueRender: the in-flight flag is not consulted
queueRenderNoDefer(s, n) == renderPage([s EXCEPT !.req = n], n)

\* queueRender(n)
queueRender(s, n) ==
  LET r == [s EXCEPT !.req = n]
  IN IF r.rendering THEN [r EXCEPT !.pending = n] ELSE renderPage(r, n)

PageText(n, of) == [text |-> "n / of", n |-> n, of |-> of]
FailedText == [text |-> "Failed to load", n |-> 0, of |-> 0]
InitialText == [text |-> "", n |-> 0, of |-> 0]

\* updateUI(): "pageNum / numPages", of = 0 standing for "--"
updateUI(s) ==
  [s EXCEPT !.indicator =
     PageText(s.pageNum, IF s.pdfDoc # NULL THEN NumPages ELSE 0)]

prevPage(s) ==
  IF s.pageNum <= 1 THEN s
  ELSE queueRender([s EXCEPT !.pageNum = @ - 1], s.pageNum - 1)

\* mutant of nextPage: the test against numPages is dropped
nextPageNoLimit(s) ==
  IF s.pdfDoc = NULL THEN s
  ELSE queueRender([s EXCEPT !.pageNum = @ + 1], s.pageNum + 1)

nextPage(s) ==
  IF s.pdfDoc = NULL THEN s
  ELSE IF s.pageNum >= NumPages THEN s
  ELSE queueRender([s EXCEPT !.pageNum = @ + 1], s.pageNum + 1)

\* mutant of zoomBy: the new scale is not clamped
zoomByNoClamp(s, f) ==
  LET newScale == RoundMul(s.scale, f)
  IN IF Abs(newScale - s.scale) < 1 THEN s
     ELSE queueRender([s EXCEPT !.scale = newScale,
                                !.fitMode = "custom",
                                !.zooms = @ + 1], s.pageNum)

\* mutant of zoomBy: the fit mode is kept
zoomByKeepFit(s, f) ==
  LET newScale == Clamp(RoundMul(s.scale, f))
  IN IF Abs(newScale - s.scale) < 1 THEN s
     ELSE queueRender([s EXCEPT !.scale = newScale,
                                !.zooms = @ + 1], s.pageNum)

\* zoomBy(factor); |newScale - scale| < 0.0001 is equality of thousandths
zoomBy(s, f) ==
  LET newScale == Clamp(RoundMul(s.scale, f))
  IN IF Abs(newScale - s.scale) < 1 THEN s
     ELSE queueRender([s EXCEPT !.scale = newScale,
                                !.fitMode = "custom",
                                !.zooms = @ + 1], s.pageNum)

\* computeInitialScaleAndRender(): issues getPage(pageNum); the rest runs
\* in FitResolved when the page arrives
computeInitialScaleAndRender(s) ==
  IF s.pdfDoc = NULL THEN s
  ELSE [s EXCEPT !.fits[s.pageNum] = @ + 1]

\* the callback of computeInitialScaleAndRender for the fetched page k
fitCallback(s, k, v) ==
  queueRender([s EXCEPT !.scale = FitScale(s.fitMode, PageSize(k), v, s.scale),
                        !.fits[k] = @ - 1], s.pageNum)

\* the getPage promise of computeInitialScaleAndRender is rejected: the
\* chain has no catch, the rejection is unhandled
fitRejected(s, k) ==
  [s EXCEPT !.fits[k] = @ - 1, !.uncaught = "UnhandledRejection"]

RemoveAt(q, i) == SubSeq(q, 1, i - 1) \o SubSeq(q, i + 1, Len(q))

\* getPage(n) of renderPage resolved: viewport at the current scale,
\* prepareCanvas, page.render
renderGetPageResolved(s, i) ==
  [s EXCEPT !.jobs[i].phase = "render", !.jobs[i].sc = s.scale]

\* renderTask.promise resolved
renderDone(s, i) ==
  LET a == updateUI([s EXCEPT !.rendering = FALSE,
                              !.ended = "done",
                              !.jobs = RemoveAt(@, i)])
  IN IF a.pending # NULL
     THEN renderPage([a EXCEPT !.pending = NULL], a.pending)
     ELSE a

\* mutant of renderFailed: the catch handlers leave the flag set
renderFailedKeepFlag(s, i) ==
  [s EXCEPT !.jobs = RemoveAt(@, i), !.ended = "failed"]

\* the two catch handlers of renderPage: log, rendering = false
renderFailed(s, i) ==
  [s EXCEPT !.rendering = FALSE, !.jobs = RemoveAt(@, i), !.ended = "failed"]

\* number of outstanding getPage calls of computeInitialScaleAndRender
RECURSIVE SumTo(_, _)
SumTo(f, n) == IF n = 0 THEN 0 ELSE f[n] + SumTo(f, n - 1)
FitsOutstanding == SumTo(fits, NumPages)


\* ---------------------------------------------------------------- handlers
Keys == {"ArrowLeft", "ArrowRight", "+", "-"}

\* the keydown listener
keydown(s, key) ==
  IF key = "ArrowLeft" THEN prevPage(s)
  ELSE IF key = "ArrowRight" THEN nextPage(s)
  ELSE IF key = "+" THEN zoomBy(s, KEY_IN)
  ELSE IF key = "-" THEN zoomBy(s, KEY_OUT)
  ELSE s

\* the wheel listener with ctrlKey held; deltaNeg is deltaY < 0
wheel(s, deltaNeg) == zoomBy(s, IF deltaNeg THEN WHEEL_IN ELSE WHEEL_OUT)

\* the touchstart listener: n fingers, the first one at p
touchstart(s, n, p) ==
  IF n = 1 THEN [s EXCEPT !.sx = p[1], !.sy = p[2]] ELSE s

\* the touchend listener: the lifted finger at p
touchend(s, p) ==
  IF s.sx = 0 THEN s
  ELSE LET dx == p[1] - s.sx
           dy == p[2] - s.sy
           r == IF Abs(dx) > SWIPE_MIN /\ Abs(dx) > Abs(dy)
                THEN (IF dx > 0 THEN prevPage(s) ELSE nextPage(s))
                ELSE s
       IN [r EXCEPT !.sx = 0, !.sy = 0]

\* the ResizeObserver callback
resizeCallback(s) ==
  IF s.pdfDoc = NULL THEN s
  ELSE IF s.fitMode \in {"auto", "width", "page"}
       THEN computeInitialScaleAndRender(s)
       ELSE queueRender(s, s.pageNum)

\* getDocument(URL).promise.then
loadResolved(s) ==
  updateUI(computeInitialScaleAndRender(
    [s EXCEPT !.pdfDoc = DOC, !.fitMode = "auto"]))

\* getDocument(URL).promise.catch
loadRejected(s) == [s EXCEPT !.indicator = FailedText]

\* ----------------------------------------------------------------- actions
NoProbe ==
  [kind |-> "none", step |-> 0, dev |-> "", origin |-> 0, mode |-> "",
   p |-> <<0, 0>>, v |-> <<0, 0>>, out |-> 0, first |-> 0,
   best |-> <<0, 1>>, best1 |-> <<0, 1>>]

Init ==
  /\ probe = NoProbe
  /\ pdfDoc = NULL
  /\ pageNum = 1
  /\ scale = INIT_SCALE
  /\ fitMode = "auto"
  /\ rendering = FALSE
  /\ pending = NULL
  /\ indicator = InitialText
  /\ viewer = InitViewport
  /\ loadTask = "pending"
  /\ jobs = <<>>
  /\ fits = [k \in 1..NumPages |-> 0]
  /\ zooms = 0
  /\ req = NULL
  /\ started = NULL
  /\ uncaught = "none"
  /\ ended = "none"
  /\ sx = 0
  /\ sy = 0
  /\ burst = 0

KeyDown ==
  \E key \in Keys :
    /\ key \in {"+", "-"} => zooms < MaxZooms
    /\ Commit(keydown(In(0), key))
    /\ UNCHANGED <<viewer, loadTask>>

ClickPrev ==
  /\ Commit(prevPage(In(0)))
  /\ UNCHANGED <<viewer, loadTask>>

ClickNext ==
  /\ Commit(nextPage(In(0)))
  /\ UNCHANGED <<viewer, loadTask>>

Wheel ==
  \E deltaNeg \in BOOLEAN :
    /\ zooms < MaxZooms
    /\ Commit(wheel(In(0), deltaNeg))
    /\ UNCHANGED <<viewer, loadTask>>

TouchStart ==
  \E n \in 1..2, p \in TouchStarts :
    /\ Commit(touchstart(In(0), n, p))
    /\ UNCHANGED <<viewer, loadTask>>

TouchEnd ==
  \E p \in TouchEnds :
    /\ Commit(touchend(In(0), p))
    /\ UNCHANGED <<viewer, loadTask>>

Resize ==
  \E v \in Viewports \ {viewer} :
    /\ (pdfDoc # NULL /\ fitMode # "custom") => FitsOutstanding < MaxFits
    /\ viewer' = v
    /\ Commit(resizeCallback(In(BurstAtResize)))
    /\ UNCHANGED loadTask

LoadResolved ==
  /\ loadTask = "pending"
  /\ loadTask' = "resolved"
  /\ Commit(loadResolved(In(0)))
  /\ UNCHANGED viewer

LoadRejected ==
  /\ loadTask = "pending"
  /\ loadTask' = "rejected"
  /\ Commit(loadRejected(In(0)))
  /\ UNCHANGED viewer

\* the page of a computeInitialScaleAndRender fetch arrives
FitResolved ==
  \E k \in 1..NumPages :
    /\ fits[k] > 0
    /\ Commit(fitCallback(Cur, k, viewer))
    /\ UNCHANGED <<viewer, loadTask>>

\* that fetch is rejected
FitRejected ==
  \E k \in 1..NumPages :
    /\ fits[k] > 0
    /\ Commit(fitRejected(In(0), k))
    /\ UNCHANGED <<viewer, loadTask>>

RenderGetPageResolved ==
  \E i \in 1..Len(jobs) :
    /\ jobs[i].phase = "getPage"
    /\ Commit(renderGetPageResolved(Cur, i))
    /\ UNCHANGED <<viewer, loadTask>>

RenderGetPageRejected ==
  \E i \in 1..Len(jobs) :
    /\ jobs[i].phase = "getPage"
    /\ Commit(renderFailed(In(0), i))
    /\ UNCHANGED <<viewer, loadTask>>

RenderResolved ==
  \E i \in 1..Len(jobs) :
    /\ jobs[i].phase = "render"
    /\ Commit(renderDone(Cur, i))
    /\ UNCHANGED <<viewer, loadTask>>

RenderRejected ==
  \E i \in 1..Len(jobs) :
    /\ jobs[i].phase = "render"
    /\ Commit(renderFailed(In(0), i))
    /\ UNCHANGED <<viewer, loadTask>>

Next ==
  \/ KeyDown
  \/ ClickPrev
  \/ ClickNext
  \/ Wheel
  \/ Resize
  \/ LoadResolved
  \/ LoadRejected
  \/ FitResolved
  \/ FitRejected
  \/ RenderGetPageResolved
  \/ RenderGetPageRejected
  \/ RenderResolved
  \/ RenderRejected

\* ------------------------------------------------ the functions on their own
\* PureSpec applies the zoom handlers and the fit computation to inputs
\* drawn by its initial condition: every scale of [0.25, 8] for a zoom in
\* followed by the opposite zoom out, and a grid of page and viewer sizes
\* for the fit scale in each mode. The viewer is loaded and at rest.
ProbeDims == {50, 400, 600, 800, 1200, 4000}
ProbeViews == {100, 600, 800}

PureInit ==
  /\ pdfDoc = DOC
  /\ pageNum = 1
  /\ fitMode = "auto"
  /\ rendering = FALSE
  /\ pending = NULL
  /\ indicator = PageText(1, NumPages)
  /\ viewer = InitViewport
  /\ loadTask = "resolved"
  /\ jobs = <<>>
  /\ fits = [k \in 1..NumPages |-> 0]
  /\ zooms = 0
  /\ req = NULL
  /\ started = NULL
  /\ uncaught = "none"
  /\ ended = "none"
  /\ sx = 0
  /\ sy = 0
  /\ burst = 0
  /\ \/ /\ scale \in MIN_SCALE..MAX_SCALE
        /\ \E d \in {"key", "wheel"} :
             probe = [NoProbe EXCEPT !.kind = "zoom", !.dev = d,
                                     !.origin = scale]
     \/ /\ scale = INIT_SCALE
        /\ \E m \in {"auto", "width", "page"},
              pw \in ProbeDims, ph \in ProbeDims,
              vw \in ProbeViews, vh \in ProbeViews :
             probe = [NoProbe EXCEPT !.kind = "fit", !.mode = m,
                                     !.p = <<pw, ph>>, !.v = <<vw, vh>>]

\* the zoom-in handler of the probe's device: '+' or wheel up
ProbeZoomIn ==
  /\ probe.kind = "zoom"
  /\ probe.step = 0
  /\ CommitState(IF probe.dev = "key" THEN keydown(In(0), "+")
                 ELSE wheel(In(0), TRUE))
  /\ probe' = [probe EXCEPT !.step = 1]
  /\ UNCHANGED <<viewer, loadTask>>

\* the opposite handler: '-' or wheel down
ProbeZoomOut ==
  /\ probe.kind = "zoom"
  /\ probe.step = 1
  /\ CommitState(IF probe.dev = "key" THEN keydown(In(0), "-")
                 ELSE wheel(In(0), FALSE))
  /\ probe' = [probe EXCEPT !.step = 2]
  /\ UNCHANGED <<viewer, loadTask>>

\* the fit computation for the probe's mode, page size and viewer size
ProbeFit ==
  /\ probe.kind = "fit"
  /\ probe.step = 0
  /\ probe' =
       [probe EXCEPT
          !.step = 1,
          !.out = FitScale(probe.mode, probe.p, probe.v, scale),
          !.best = pickBestScaleForPage(probe.p, probe.v),
          !.best1 = pickBestScaleForPageFirst(probe.p, probe.v),
          !.first = Clamp(RoundDiv(pickBestScaleForPageFirst(probe.p, probe.v)[1],
                                   pickBestScaleForPageFirst(probe.p, probe.v)[2]))]
  /\ UNCHANGED <<pdfDoc, pageNum, scale, fitMode, rendering, pending,
                 indicator, viewer, loadTask, jobs, fits, zooms, req,
                 started, uncaught, ended, sx, sy, burst>>

PureNext ==
  \/ ProbeZoomIn
  \/ ProbeZoomOut
  \/ ProbeFit

PureSpec == PureInit /\ [][PureNext]_vars

\* Keyboard, buttons, wheel, resize and the promise callbacks. The touch
\* listeners reach the shared state only through prevPage / nextPage, which
\* the arrow keys and the buttons call from every state; sx and sy are read
\* by touchend alone.
Spec == Init /\ [][Next]_vars

\* the same with the touch listeners
NextTouch ==
  \/ Next
  \/ TouchStart
  \/ TouchEnd

TouchSpec == Init /\ [][NextTouch]_vars


\* ------------------------------------------------------------- properties
\* nothing asynchronous is outstanding: the load has succeeded, no render
\* operation and no fit fetch is in progress
Idle == loadTask = "resolved" /\ jobs = <<>> /\ FitsOutstanding = 0

InRange(x) == MIN_SCALE <= x /\ x <= MAX_SCALE

\* C1: at most one render operation (page fetch plus rasterization started
\* by renderPage) is outstanding in every reachable state, and a request
\* made while one is outstanding goes to the pending slot: it starts no
\* render and leaves the outstanding one as it is.
C1_SingleFlight ==
  /\ [](Len(jobs) <= 1)
  /\ [][(jobs # <<>> /\ req' # NULL)
          => (started' = NULL /\ pending' = req' /\ jobs' = jobs)]_vars

C1_Witness ==
  /\ Len(jobs) = 1
  /\ req # NULL
  /\ started = NULL
  /\ pending = req

\* C2: when the in-flight render ends while a request is pending, a render
\* of the pending page (the page of the last queueRender call) starts in
\* that step and the slot is emptied.
C2_TrailingRender ==
  [][(Len(jobs) = 1 /\ pending # NULL /\ ended' # "none")
       => (started' = pending /\ pending' = NULL)]_vars

\* C3: convergence, in the form a finite run refutes: once nothing is
\* outstanding the scheduler is quiescent (rendering false, pending empty),
\* and a render whose completion leaves it quiescent was for the current
\* pageNum at the current scale.
C3_Convergence ==
  /\ [](Idle => (~rendering /\ pending = NULL))
  /\ [][(Len(jobs) = 1 /\ ended' = "done" /\ ~rendering')
          => (jobs[1].n = pageNum' /\ jobs[1].sc = scale')]_vars

\* the handler result t leaves the view state and the scheduler of s alone
\* and requests no render
NoEffect(s, t) ==
  /\ t.pageNum = s.pageNum
  /\ t.scale = s.scale
  /\ t.fitMode = s.fitMode
  /\ t.rendering = s.rendering
  /\ t.pending = s.pending
  /\ t.jobs = s.jobs
  /\ t.req = NULL
  /\ t.started = NULL

\* the handler result t has moved pageNum by d and requested its render
MovedBy(s, t, d) ==
  /\ t.pageNum = s.pageNum + d
  /\ t.req = t.pageNum
  /\ IF s.rendering THEN t.pending = t.pageNum /\ t.jobs = s.jobs
     ELSE t.started = t.pageNum

\* C4: with a document of NumPages >= 1 pages, pageNum is within
\* 1..NumPages in every reachable state; from every reachable state
\* prevPage at page 1 and nextPage at page NumPages change nothing and
\* request no render, and every other prevPage / nextPage on the loaded
\* document moves pageNum by exactly one and requests a render of the new
\* page (both callers of each: the button and the arrow key).
C4_Navigation ==
  /\ pageNum \in 1..NumPages
  /\ \A t \in {prevPage(Cur), keydown(Cur, "ArrowLeft")} :
       IF pageNum = 1 THEN NoEffect(Cur, t) ELSE MovedBy(Cur, t, -1)
  /\ pdfDoc # NULL =>
       \A t \in {nextPage(Cur), keydown(Cur, "ArrowRight")} :
         IF pageNum = NumPages THEN NoEffect(Cur, t) ELSE MovedBy(Cur, t, 1)

\* a navigation has reached the last page and requested its render
C4_Witness ==
  /\ pdfDoc # NULL
  /\ NumPages > 1
  /\ pageNum = NumPages
  /\ req = pageNum
  /\ zooms = 0
  /\ FitsOutstanding = 0
  /\ ended = "none"

\* the fit scale of every mode, page size and viewport size of the model
FitScalesInRange ==
  \A m \in {"auto", "width", "page"}, k \in 1..Len(Sizes), v \in Viewports :
    InRange(FitScale(m, PageSize(k), v, INIT_SCALE))

\* C5: scale is within [0.25, 8.0] in every reachable state, so is the
\* scale every rasterization uses, and so is the fit scale of every mode
\* for every page and viewport size of the model.
C5_ScaleInRange ==
  /\ InRange(scale)
  /\ \A i \in 1..Len(jobs) : jobs[i].phase = "render" => InRange(jobs[i].sc)
  /\ FitScalesInRange

\* a rasterization runs at a clamped scale
C5_Witness ==
  /\ scale \in {MIN_SCALE, MAX_SCALE}
  /\ \E i \in 1..Len(jobs) : jobs[i].phase = "render" /\ jobs[i].sc = scale

\* C6: when the page fetch or the rasterization of the in-flight render
\* fails, rendering is cleared, pageNum, scale and fitMode keep their
\* values and no render is started by that step; and with the flag clear a
\* render request on the loaded document starts its render in the same
\* step, leaving the pending slot alone.
C6_RenderFailure ==
  /\ [](ended = "failed" => ~rendering)
  /\ [][ended' = "failed"
          => (/\ rendering' = FALSE
              /\ UNCHANGED <<pageNum, scale, fitMode, pending>>
              /\ started' = NULL
              /\ jobs' = <<>>)]_vars
  /\ [][(pdfDoc # NULL /\ ~rendering /\ req' # NULL)
          => (started' = req' /\ rendering' /\ pending' = pending)]_vars

C6_Witness ==
  /\ ended = "failed"
  /\ ~rendering
  /\ jobs = <<>>
  /\ pending # NULL

\* C7: every render that starts is for the page that is the current
\* pageNum at that time, also after a page-fetch or rasterization failure.
C7_RenderCurrentPage ==
  [][started' # NULL => started' = pageNum']_vars

\* C8: once the document load has failed no step changes pageNum, scale,
\* fitMode, pending, the rendering flag or the indicator, and none starts
\* a render.
C8_HaltAfterLoadFailure ==
  [][loadTask = "rejected"
       => (/\ UNCHANGED <<pageNum, scale, fitMode, pending, rendering,
                          indicator, jobs>>
           /\ started' = NULL)]_vars

\* C9: no handler and no promise continuation ends in an uncaught error.
C9_NoUncaughtError == uncaught = "none"

ErrorShown(ind) == ind.text \notin {"", "n / of"}

\* C10: when a page fetch or a rasterization of a render fails, the
\* indicator shows an error string.
C10_RenderErrorShown ==
  [][ended' = "failed" => ErrorShown(indicator')]_vars


\* C11: a burst of resize notifications delivered while a render is in
\* flight leads to exactly two renders: the in-flight one and one trailing
\* render. While the burst has counted one render something is still
\* outstanding, and it never counts a third.
C11_TwoRendersPerBurst ==
  \/ burst = 0
  \/ burst = 1 /\ (jobs # <<>> \/ FitsOutstanding > 0)
  \/ burst = 2


ProbeFactor == IF probe.dev = "key" THEN KEY_IN ELSE WHEEL_IN

NearestThousandth(x, q) == 2 * Abs(x * q[2] - 1000 * q[1]) <= q[2]

\* the scale C13 names: fit width if sx < sy, else the smaller of the two
ClaimedAuto(p, v) ==
  LET a == <<v[1], p[1]>>
      b == <<v[2], p[2]>>
      less == a[1] * b[2] < b[1] * a[2]
      more == a[1] * b[2] > b[1] * a[2]
  IN IF less THEN a ELSE IF more THEN b ELSE a

\* C13: in auto mode the fit scale of a page of natural size p in a viewer
\* of size v is sx = vw/nw when sx < sy = vh/nh and min(sx, sy) otherwise,
\* rounded to 3 decimals and kept within [0.25, 8]; a 600x800 page in an
\* 800x600 viewer gets 0.75 and a 1200x400 page gets 0.667.
C13_AutoFit ==
  (probe.kind = "fit" /\ probe.step = 1 /\ probe.mode = "auto") =>
    /\ \E x \in 0..(2 * MAX_SCALE + 1) :
         /\ NearestThousandth(x, ClaimedAuto(probe.p, probe.v))
         /\ probe.out = Max(MIN_SCALE, Min(MAX_SCALE, x))
    /\ (probe.v = <<800, 600>> /\ probe.p = <<600, 800>>) => probe.out = 750
    /\ (probe.v = <<800, 600>> /\ probe.p = <<1200, 400>>) => probe.out = 667

\* the wide page of the example has been fitted in auto mode
C13_Witness ==
  /\ probe.kind = "fit"
  /\ probe.step = 1
  /\ probe.mode = "auto"
  /\ probe.v = <<800, 600>>
  /\ probe.p = <<1200, 400>>
  /\ probe.out = 667


\* two quotients of the same value
RatEq(x, y) == x[1] * y[2] = y[1] * x[2]

\* min(vw/nw, vh/nh), the scale of page mode before it is rounded
PageFit(p, v) ==
  IF v[1] * p[2] <= v[2] * p[1] THEN <<v[1], p[1]>> ELSE <<v[2], p[2]>>

\* both definitions of pickBestScaleForPage return the scale of page mode
BothArePageFit ==
  /\ RatEq(probe.best, PageFit(probe.p, probe.v))
  /\ RatEq(probe.best1, PageFit(probe.p, probe.v))
  /\ probe.mode = "auto" =>
       /\ probe.out = FitScale("page", probe.p, probe.v, scale)
       /\ probe.first = probe.out

\* C20 as stated: for every page and viewer size the auto scale is the
\* page-mode scale min(vw/nw, vh/nh) in both definitions, and the scale auto
\* mode yields never makes the page larger than the viewer.
C20_AutoNeverExceeds ==
  (probe.kind = "fit" /\ probe.step = 1) =>
    /\ BothArePageFit
    /\ probe.mode = "auto" =>
         /\ probe.out * probe.p[1] <= 1000 * probe.v[1]
         /\ probe.out * probe.p[2] <= 1000 * probe.v[2]

\* the page scaled by the quotient q is no larger than the viewer v
FitsViewer(q, p, v) ==
  /\ q[1] * p[1] <= v[1] * q[2]
  /\ q[1] * p[2] <= v[2] * q[2]

\* C20 amended: the auto scale is the page-mode scale in both definitions,
\* and the value pickBestScaleForPage returns never makes the page larger
\* than the viewer; the scale stored after rounding and clamping can.
C20_AutoIsPageFit ==
  (probe.kind = "fit" /\ probe.step = 1) =>
    /\ BothArePageFit
    /\ FitsViewer(probe.best, probe.p, probe.v)
    /\ FitsViewer(probe.best1, probe.p, probe.v)

\* a tall page in a small viewer: the returned 0.125 fits, the stored 0.25
\* is twice the viewer
C20_Witness ==
  /\ probe.kind = "fit"
  /\ probe.step = 1
  /\ probe.mode = "auto"
  /\ probe.p = <<600, 800>>
  /\ probe.v = <<100, 100>>
  /\ RatEq(probe.best, <<1, 8>>)
  /\ RatEq(probe.best1, <<1, 8>>)
  /\ probe.out = MIN_SCALE


\* the handler result t has set the scale of s to n, left auto-fit and
\* requested a render of the current page
ZoomedTo(s, t, n) ==
  /\ t.scale = n
  /\ t.fitMode = "custom"
  /\ t.pageNum = s.pageNum
  /\ t.req = s.pageNum
  /\ s.pdfDoc # NULL =>
       IF s.rendering THEN t.pending = s.pageNum /\ t.jobs = s.jobs
       ELSE t.started = s.pageNum

\* C14: from every reachable state zoomBy(factor) takes newScale =
\* scale * factor rounded to 3 decimals and kept within [0.25, 8]; if
\* newScale is the current scale it changes nothing and requests no render,
\* otherwise it sets scale = newScale and fitMode = custom and requests a
\* render of the current page (every caller: '+', '-', Ctrl+wheel).
C14_ZoomEffect ==
  \A c \in {<<KEY_IN, keydown(Cur, "+")>>, <<KEY_OUT, keydown(Cur, "-")>>,
            <<WHEEL_IN, wheel(Cur, TRUE)>>, <<WHEEL_OUT, wheel(Cur, FALSE)>>,
            <<KEY_IN, zoomBy(Cur, KEY_IN)>>} :
    LET f == c[1]
        lo == (scale * f[1]) \div f[2]
    IN \E x \in {lo, lo + 1} :
         /\ 2 * Abs(x * f[2] - scale * f[1]) <= f[2]
         /\ LET n == Max(MIN_SCALE, Min(MAX_SCALE, x))
            IN IF n = scale THEN NoEffect(Cur, c[2])
               ELSE ZoomedTo(Cur, c[2], n)

\* a zoom has changed the scale of the loaded document and requested the
\* render of the current page
C14_Witness ==
  /\ pdfDoc # NULL
  /\ zooms > 0
  /\ fitMode = "custom"
  /\ req = pageNum
  /\ scale \notin {INIT_SCALE, MIN_SCALE, MAX_SCALE}


\* C15: whenever the pending slot is non-empty it holds the page of the
\* most recent render request, which is the current pageNum, also after a
\* page fetch or a render has failed.
C15_PendingIsLatest == pending # NULL => pending = pageNum


\* C16: a resize to the viewer size v in a fit mode, followed by at most one
\* navigation before the page fetch of the resize completes, stores the fit
\* scale of the page that is then the current pageNum, measured against v.
C16_RefitCurrentPage ==
  (/\ pdfDoc # NULL
   /\ fitMode \in {"auto", "width", "page"}
   /\ FitsOutstanding = 0) =>
    \A v \in Viewports \ {viewer} :
      \A t \in {resizeCallback(Cur), prevPage(resizeCallback(Cur)),
                nextPage(resizeCallback(Cur))} :
        fitCallback(t, pageNum, v).scale
          = FitScale(fitMode, PageSize(t.pageNum), v, scale)


\* the results of every handler and callback that is not a zoom, applied
\* to the current state
NonZoomResults ==
  {prevPage(Cur), nextPage(Cur), keydown(Cur, "ArrowLeft"),
   keydown(Cur, "ArrowRight"), resizeCallback(Cur), loadRejected(Cur)}
  \cup {fitCallback(Cur, k, v) : k \in {j \in 1..NumPages : fits[j] > 0},
                                 v \in Viewports}
  \cup {fitRejected(Cur, k) : k \in {j \in 1..NumPages : fits[j] > 0}}
  \cup {renderGetPageResolved(Cur, i) :
          i \in {j \in 1..Len(jobs) : jobs[j].phase = "getPage"}}
  \cup {renderDone(Cur, i) :
          i \in {j \in 1..Len(jobs) : jobs[j].phase = "render"}}
  \cup {renderFailed(Cur, i) : i \in 1..Len(jobs)}

\* in custom mode no handler but a zoom changes scale, and the page of a
\* fit fetch still outstanding leaves scale and fit mode as the zoom set them
CustomScaleKept ==
  /\ \A t \in NonZoomResults : t.scale = scale
  /\ \A k \in 1..NumPages, v \in Viewports :
       fits[k] > 0 =>
         /\ fitCallback(Cur, k, v).scale = scale
         /\ fitCallback(Cur, k, v).fitMode = "custom"

\* C17: while fitMode is custom only zoomBy changes scale; a
\* resize leaves scale and fitMode unchanged and requests a re-render of
\* the current page; a fit fetch started before the zoom and completing
\* after it does not overwrite the zoomed scale.
C17_CustomResizeRenders ==
  fitMode = "custom" =>
    /\ CustomScaleKept
    /\ resizeCallback(Cur).scale = scale
    /\ resizeCallback(Cur).fitMode = "custom"
    /\ resizeCallback(Cur).req = pageNum

\* the same with the re-render requested only when a document is loaded:
\* with none the resize handler returns at once
CustomKeptWithDocument ==
  fitMode = "custom" =>
    /\ CustomScaleKept
    /\ resizeCallback(Cur).scale = scale
    /\ resizeCallback(Cur).fitMode = "custom"
    /\ IF pdfDoc # NULL THEN resizeCallback(Cur).req = pageNum
       ELSE NoEffect(Cur, resizeCallback(Cur))


\* C18: a one-finger touch starting at p0 and ending at p1 navigates if and
\* only if |dx| > 60 and |dx| > |dy|, wherever it starts (x0 = 0 included):
\* to the right it does what prevPage does, to the left what nextPage does,
\* and any other gesture changes no view state.
C18_SwipeNavigates ==
  \A p0 \in TouchStarts, p1 \in TouchEnds :
    LET t == touchend(touchstart(Cur, 1, p0), p1)
        dx == p1[1] - p0[1]
        dy == p1[2] - p0[2]
        rest == [t EXCEPT !.sx = sx, !.sy = sy]
    IN IF Abs(dx) > SWIPE_MIN /\ Abs(dx) > Abs(dy)
       THEN rest = (IF dx > 0 THEN prevPage(Cur) ELSE nextPage(Cur))
       ELSE NoEffect(Cur, t)


\* C19: the rendering flag is truthful: in every reachable state rendering
\* is true only if a page fetch or a rasterization started by renderPage is
\* outstanding, whatever the events, zooms before the load included.
C19_FlagTruthful == rendering => jobs # <<>>

====
